---- MODULE Spec2Model ----
(***************************************************************************)
(* Model of src/evaluation/fold_eval_tts.py: the batch packer              *)
(* create_batched_sequence_datasest (a generator) and the inference loop   *)
(* of run() with its completion step and the in-place FASTA rewrite.       *)
(*                                                                         *)
(* A residue string is modelled by its length, the only thing the packer   *)
(* and the loop read of it (len(seq)); a FASTA header is the record        *)
(* [id, items] of its whitespace-separated tokens (the id token and the    *)
(* key=value tokens); a Python dict is an association list with unique     *)
(* keys in insertion order.                                                *)
(***************************************************************************)
EXTENDS Integers, Sequences, FiniteSets, TLC

VARIABLES
    fasta,                 \* the records of the file at args.fasta
    max_tokens_per_batch,  \* args.max_tokens_per_batch
    all_sequences,         \* the list handed to the packer
    gen,                   \* the generator object batched_sequences
    emitted,               \* the batches the generator has yielded so far
    pc,                    \* position of run()
    headers,               \* loop variable headers of run()
    sequences,             \* loop variable sequences of run()
    raised,                \* what model.infer raised in the current iteration
    error,                 \* the exception that left run()
    num_completed,
    pLDDT_dict,
    pTM_dict,
    pdb                    \* the files written under args.pdb, by seq_id

vars == <<fasta, max_tokens_per_batch, all_sequences, gen, emitted, pc, headers,
          sequences, raised, error, num_completed, pLDDT_dict, pTM_dict, pdb>>

runvars == <<pc, headers, sequences, raised, error, num_completed, pLDDT_dict,
             pTM_dict, pdb>>

----------------------------------------------------------------------------
(* Bounds and input domains *)

MaxSeqs == 3
MaxRecs == 3

Ids == {"a", "b"}
Lengths == {0, 50, 100, 200, 300, 400}
Budgets == {-1, 0, 100, 350}
RunLengths == {100, 400}
RunBudgets == {0, 350}

SeqsUpTo(S, n) == UNION {[1..k -> S] : k \in 0..n}

----------------------------------------------------------------------------
(* Python built-ins used by the code *)

len(seq) == seq

\* header.split()[0]
SeqId(header) == header.id

\* str.startswith on a message modelled as its sequence of words
startswith(s, prefix) ==
    /\ Len(s) >= Len(prefix)
    /\ SubSeq(s, 1, Len(prefix)) = prefix

\* dict as association list: keys, lookup, d[k] = v
Keys(d) == {d[i][1] : i \in 1..Len(d)}

Get(d, k) == d[CHOOSE i \in 1..Len(d) : d[i][1] = k][2]

SetItem(d, k, v) ==
    IF k \in Keys(d)
    THEN [i \in 1..Len(d) |-> IF d[i][1] = k THEN <<k, v>> ELSE d[i]]
    ELSE Append(d, <<k, v>>)

\* sorted(xs, key=lambda header_seq: len(header_seq[1])): stable
RECURSIVE InsertByLen(_, _)
InsertByLen(x, s) ==
    IF s = <<>> THEN <<x>>
    ELSE IF len(x[2]) < len(Head(s)[2]) THEN <<x>> \o s
    ELSE <<Head(s)>> \o InsertByLen(x, Tail(s))

RECURSIVE sorted(_)
sorted(s) ==
    IF s = <<>> THEN <<>>
    ELSE InsertByLen(s[Len(s)], sorted(SubSeq(s, 1, Len(s) - 1)))

----------------------------------------------------------------------------
(* create_batched_sequence_datasest, one generator step at a time.         *)
(* gen.at is where the generator stands: "loop" at the head of the for     *)
(* loop, "yielded" suspended at the yield of the else branch, "final"      *)
(* suspended at the last yield, "done" returned.  gen.i is the index of    *)
(* the pair the for loop is at.                                            *)

NewGen == [at |-> "loop", i |-> 1, batch_headers |-> <<>>,
           batch_sequences |-> <<>>, num_tokens |-> 0]

\* a mutant: strict comparison
FitsStrict(seq, num_tokens, budget) == len(seq) + num_tokens < budget

\* a mutant: the running total is left out of the comparison
FitsAlone(seq, num_tokens, budget) == len(seq) <= budget

\* line 78
Fits(seq, num_tokens, budget) == len(seq) + num_tokens <= budget

\* lines 79-81
GenAppend(g, pair) ==
    [g EXCEPT !.batch_headers = Append(@, pair[1]),
              !.batch_sequences = Append(@, pair[2]),
              !.num_tokens = @ + len(pair[2]),
              !.i = @ + 1,
              !.at = "loop"]

\* a mutant: the pair that closed the batch is not put into the new one
GenRestartDrop(g, pair) ==
    [g EXCEPT !.batch_headers = <<>>,
              !.batch_sequences = <<>>,
              !.num_tokens = 0,
              !.i = @ + 1,
              !.at = "loop"]

\* lines 84-87, run when the generator is resumed after the yield of line 83
GenRestart(g, pair) ==
    GenAppend([g EXCEPT !.batch_headers = <<>>,
                        !.batch_sequences = <<>>,
                        !.num_tokens = 0], pair)

\* the value of a yield: (batch_headers, batch_sequences)
Yielded(g) == [headers |-> g.batch_headers, sequences |-> g.batch_sequences]

\* one step of the generator over the list seqs
GenStep(g, seqs, budget) ==
    CASE g.at = "loop" /\ g.i <= Len(seqs) /\ Fits(seqs[g.i][2], g.num_tokens, budget)
            -> GenAppend(g, seqs[g.i])
      [] g.at = "loop" /\ g.i <= Len(seqs) /\ ~Fits(seqs[g.i][2], g.num_tokens, budget)
            -> [g EXCEPT !.at = "yielded"]
      [] g.at = "loop" /\ g.i > Len(seqs)
            -> [g EXCEPT !.at = "final"]
      [] g.at = "yielded"
            -> GenRestart(g, seqs[g.i])
      [] g.at = "final"
            -> [g EXCEPT !.at = "done"]
      [] OTHER -> g

Suspended(g) == g.at \in {"yielded", "final"}

\* next(generator): resume, then run to the next yield or to the return
RECURSIVE RunToYield(_, _, _)
RunToYield(g, seqs, budget) ==
    IF Suspended(g) \/ g.at = "done" THEN g
    ELSE RunToYield(GenStep(g, seqs, budget), seqs, budget)

GenNext(g, seqs, budget) ==
    IF g.at = "done" THEN g
    ELSE RunToYield(GenStep(g, seqs, budget), seqs, budget)

----------------------------------------------------------------------------
(* Exceptions *)

\* an exception: its class, its args tuple and the line that raised it
NoExc == [cls |-> "None", args |-> <<>>, line |-> 0]

OOMPrefix == <<"CUDA out of memory">>

OOMError == [cls |-> "RuntimeError",
             args |-> << <<"CUDA out of memory", ". Tried to allocate 2.00 GiB">> >>,
             line |-> 212]

\* what model.infer can raise (line 212)
InferExceptions ==
    { OOMError,
      [cls |-> "RuntimeError",
       args |-> << <<"CUDA error", ": device-side assert triggered">> >>,
       line |-> 212],
      [cls |-> "RuntimeError", args |-> <<>>, line |-> 212],
      [cls |-> "ValueError",
       args |-> << <<"not enough values to unpack">> >>,
       line |-> 212] }

IndexError == [cls |-> "IndexError",
               args |-> << <<"tuple index out of range">> >>,
               line |-> 214]

ZeroDivisionError(line) == [cls |-> "ZeroDivisionError",
                            args |-> << <<"division by zero">> >>,
                            line |-> line]

\* a mutant: the handler has no continue, the caught exception is raised again
ExceptReraise(e) == [do |-> "raise", exc |-> e]

\* lines 213-226: what the try statement does with an exception of line 212
Except(e) ==
    IF e.cls # "RuntimeError" THEN [do |-> "raise", exc |-> e]
    ELSE IF e.args = <<>> THEN [do |-> "raise", exc |-> IndexError]
    ELSE IF startswith(e.args[1], OOMPrefix) THEN [do |-> "continue", exc |-> NoExc]
    ELSE [do |-> "raise", exc |-> e]

----------------------------------------------------------------------------
(* Scores and their formatting.  A score is an integer number of 1/10000;  *)
(* f"{x:0.1f}" and f"{x:0.3f}" give a decimal with 1 and 3 digits, held as *)
(* [digits, value] with value in units of 10^-digits.                      *)

PlddtVals == {800400, 912600}
PtmVals == {8125}

Pow10(d) == CASE d = 1 -> 1000 [] d = 3 -> 10 [] OTHER -> 1

Format(x, d) ==
    LET unit == Pow10(d)
        q == x \div unit
        r == x % unit
        up == 2 * r > unit \/ (2 * r = unit /\ q % 2 = 1)
    IN [digits |-> d, value |-> IF up THEN q + 1 ELSE q]

----------------------------------------------------------------------------
(* The FASTA file: read_fasta, parse_fasta, write_fasta *)

StaleItems == << <<"pLDDT", Format(500000, 1)>>, <<"pTM", Format(5000, 3)>> >>

FastaRecords == [id : Ids, items : {<<>>, StaleItems}, seq : RunLengths]

\* esm.data.read_fasta: the (header, sequence) pairs of the file
read_fasta(file) ==
    [i \in 1..Len(file) |->
        <<[id |-> file[i].id, items |-> file[i].items], file[i].seq>>]

\* line 152: the dict of the key=value tokens of a header
RECURSIVE DictOf(_)
DictOf(items) ==
    IF items = <<>> THEN <<>>
    ELSE LET last == items[Len(items)]
         IN SetItem(DictOf(SubSeq(items, 1, Len(items) - 1)), last[1], last[2])

\* lines 135-162
parse_fasta(file) ==
    [i \in 1..Len(file) |->
        [id |-> file[i].id, seq |-> file[i].seq, annotations |-> DictOf(file[i].items)]]

\* lines 164-169
write_fasta(recs) ==
    [i \in 1..Len(recs) |->
        [id |-> recs[i].id, items |-> recs[i].annotations, seq |-> recs[i].seq]]

\* lines 254-258
Annotated(recs, plddt, ptm) ==
    [i \in 1..Len(recs) |->
        IF recs[i].id \in Keys(plddt)
        THEN [recs[i] EXCEPT !.annotations =
                 SetItem(SetItem(@, "pLDDT", Format(Get(plddt, recs[i].id), 1)),
                         "pTM", Format(Get(ptm, recs[i].id), 3))]
        ELSE recs[i]]

----------------------------------------------------------------------------
(* run(): lines 234-242, the per-sequence loop over one batch.  st is the  *)
(* record [pdb, num_completed, pLDDT_dict, pTM_dict]; output[i] is the     *)
(* pair (mean_plddt, ptm) of the i-th sequence.                            *)

RECURSIVE WriteBatch(_, _, _, _, _)
WriteBatch(st, hs, ss, output, i) ==
    IF i > Len(hs) THEN st
    ELSE LET seq_id == SeqId(hs[i])
         IN WriteBatch([pdb |-> SetItem(st.pdb, seq_id, ss[i]),
                        num_completed |-> st.num_completed + 1,
                        pLDDT_dict |-> SetItem(st.pLDDT_dict, seq_id, output[i][1]),
                        pTM_dict |-> SetItem(st.pTM_dict, seq_id, output[i][2])],
                       hs, ss, output, i + 1)

----------------------------------------------------------------------------
(* Initial states *)

RunIdle ==
    /\ headers = <<>>
    /\ sequences = <<>>
    /\ raised = NoExc
    /\ error = NoExc
    /\ num_completed = 0
    /\ pLDDT_dict = <<>>
    /\ pTM_dict = <<>>
    /\ pdb = <<>>

\* the example of the specification: lengths 100, 200, 300, 50
ExampleInput ==
    << <<[id |-> "a", items |-> <<>>], 100>>, <<[id |-> "b", items |-> <<>>], 200>>,
       <<[id |-> "a", items |-> <<>>], 300>>, <<[id |-> "b", items |-> <<>>], 50>> >>

PackInputs ==
    SeqsUpTo([id : Ids, items : {<<>>}] \X Lengths, MaxSeqs) \cup {ExampleInput}

\* the packer called on any list with any budget
PackInit ==
    /\ fasta = <<>>
    /\ all_sequences \in PackInputs
    /\ max_tokens_per_batch \in Budgets
    /\ gen = NewGen
    /\ emitted = <<>>
    /\ pc = "pack"
    /\ RunIdle

\* run() at line 209: the file read and sorted, the generator created
Init ==
    /\ fasta \in SeqsUpTo(FastaRecords, MaxRecs)
    /\ all_sequences = sorted(read_fasta(fasta))
    /\ max_tokens_per_batch \in RunBudgets
    /\ gen = NewGen
    /\ emitted = <<>>
    /\ pc = "for"
    /\ RunIdle

----------------------------------------------------------------------------
(* The packer driven step by step *)

PackAppend ==
    /\ pc = "pack" /\ gen.at = "loop" /\ gen.i <= Len(all_sequences)
    /\ Fits(all_sequences[gen.i][2], gen.num_tokens, max_tokens_per_batch)
    /\ gen' = GenStep(gen, all_sequences, max_tokens_per_batch)
    /\ UNCHANGED <<fasta, max_tokens_per_batch, all_sequences, emitted, runvars>>

PackYield ==
    /\ pc = "pack" /\ gen.at = "loop" /\ gen.i <= Len(all_sequences)
    /\ ~Fits(all_sequences[gen.i][2], gen.num_tokens, max_tokens_per_batch)
    /\ gen' = GenStep(gen, all_sequences, max_tokens_per_batch)
    /\ emitted' = Append(emitted, Yielded(gen'))
    /\ UNCHANGED <<fasta, max_tokens_per_batch, all_sequences, runvars>>

PackResume ==
    /\ pc = "pack" /\ gen.at = "yielded"
    /\ gen' = GenStep(gen, all_sequences, max_tokens_per_batch)
    /\ UNCHANGED <<fasta, max_tokens_per_batch, all_sequences, emitted, runvars>>

PackYieldFinal ==
    /\ pc = "pack" /\ gen.at = "loop" /\ gen.i > Len(all_sequences)
    /\ gen' = GenStep(gen, all_sequences, max_tokens_per_batch)
    /\ emitted' = Append(emitted, Yielded(gen'))
    /\ UNCHANGED <<fasta, max_tokens_per_batch, all_sequences, runvars>>

PackReturn ==
    /\ pc = "pack" /\ gen.at = "final"
    /\ gen' = GenStep(gen, all_sequences, max_tokens_per_batch)
    /\ UNCHANGED <<fasta, max_tokens_per_batch, all_sequences, emitted, runvars>>

PackNext == PackAppend \/ PackYield \/ PackResume \/ PackYieldFinal \/ PackReturn

PackSpec == PackInit /\ [][PackNext]_vars

----------------------------------------------------------------------------
(* run(): the loop of line 209, the completion step and the rewrite *)

\* line 209: the for statement takes the next batch, or ends the loop
ForNext ==
    /\ pc = "for"
    /\ gen' = GenNext(gen, all_sequences, max_tokens_per_batch)
    /\ IF gen'.at = "done"
       THEN /\ pc' = "average"
            /\ UNCHANGED <<headers, sequences, emitted>>
       ELSE /\ pc' = "infer"
            /\ headers' = gen'.batch_headers
            /\ sequences' = gen'.batch_sequences
            /\ emitted' = Append(emitted, Yielded(gen'))
    /\ raised' = NoExc
    /\ UNCHANGED <<fasta, max_tokens_per_batch, all_sequences, error,
                   num_completed, pLDDT_dict, pTM_dict, pdb>>

\* lines 212, 228-247: model.infer returns
InferOk ==
    /\ pc = "infer"
    /\ raised' = NoExc
    /\ \E output \in [1..Len(sequences) -> PlddtVals \X PtmVals] :
         IF Len(headers) = 0
         THEN /\ pc' = "failed"
              /\ error' = ZeroDivisionError(231)
              /\ UNCHANGED <<num_completed, pLDDT_dict, pTM_dict, pdb>>
         ELSE LET st == WriteBatch([pdb |-> pdb, num_completed |-> num_completed,
                                    pLDDT_dict |-> pLDDT_dict, pTM_dict |-> pTM_dict],
                                   headers, sequences, output, 1)
              IN /\ pdb' = st.pdb
                 /\ num_completed' = st.num_completed
                 /\ pLDDT_dict' = st.pLDDT_dict
                 /\ pTM_dict' = st.pTM_dict
                 /\ pc' = "for"
                 /\ UNCHANGED error
    /\ UNCHANGED <<fasta, max_tokens_per_batch, all_sequences, gen, emitted,
                   headers, sequences>>

\* lines 212-226: model.infer raises
InferRaise ==
    /\ pc = "infer"
    /\ \E e \in InferExceptions :
         /\ raised' = e
         /\ IF Except(e).do = "continue"
            THEN pc' = "for" /\ UNCHANGED error
            ELSE pc' = "failed" /\ error' = Except(e).exc
    /\ UNCHANGED <<fasta, max_tokens_per_batch, all_sequences, gen, emitted,
                   headers, sequences, num_completed, pLDDT_dict, pTM_dict, pdb>>

\* lines 248-250
Average ==
    /\ pc = "average"
    /\ IF num_completed = 0
       THEN pc' = "failed" /\ error' = ZeroDivisionError(248)
       ELSE pc' = "annotate" /\ UNCHANGED error
    /\ UNCHANGED <<fasta, max_tokens_per_batch, all_sequences, gen, emitted,
                   headers, sequences, raised, num_completed, pLDDT_dict, pTM_dict,
                   pdb>>

\* lines 252-262
Annotate ==
    /\ pc = "annotate"
    /\ fasta' = write_fasta(Annotated(parse_fasta(fasta), pLDDT_dict, pTM_dict))
    /\ pc' = "done"
    /\ UNCHANGED <<max_tokens_per_batch, all_sequences, gen, emitted, headers,
                   sequences, raised, error, num_completed, pLDDT_dict, pTM_dict, pdb>>

Next == ForNext \/ InferOk \/ InferRaise \/ Average \/ Annotate

Spec == Init /\ [][Next]_vars

----------------------------------------------------------------------------
(* Properties *)

\* the (header, sequence) pairs of a batch, and of a list of batches in order
Pairs(b) == [i \in 1..Len(b.headers) |-> <<b.headers[i], b.sequences[i]>>]

RECURSIVE Flatten(_)
Flatten(bs) == IF bs = <<>> THEN <<>> ELSE Pairs(Head(bs)) \o Flatten(Tail(bs))

\* the summed length of the sequences of a batch
RECURSIVE sum(_)
sum(s) == IF s = <<>> THEN 0 ELSE len(Head(s)) + sum(Tail(s))

IsPrefix(s, t) == Len(s) <= Len(t) /\ s = SubSeq(t, 1, Len(s))

Exhausted == gen.at \in {"final", "done"}

BatchLengths == [k \in 1..Len(emitted) |-> emitted[k].sequences]

Sorted(s) == \A i \in 1..Len(s) - 1 : len(s[i][2]) <= len(s[i + 1][2])

\* C1: with a positive budget the batches are an order-preserving partition
\* of the input: every batch has as many headers as sequences, the pairs of
\* the batches emitted so far, in emission order, are a prefix of the input,
\* and once the last batch is emitted they are the whole input.
C1_OrderPreservingPartition ==
    max_tokens_per_batch > 0 =>
        /\ \A k \in 1..Len(emitted) :
              Len(emitted[k].headers) = Len(emitted[k].sequences)
        /\ IsPrefix(Flatten(emitted), all_sequences)
        /\ Exhausted => Flatten(emitted) = all_sequences

C1_Witness ==
    /\ pc = "pack" /\ gen.at = "done" /\ max_tokens_per_batch > 0
    /\ Len(all_sequences) >= 3
    /\ Len(emitted) >= 2
    /\ \E k \in 1..Len(emitted) : Len(emitted[k].headers) >= 2
    /\ Flatten(emitted) = all_sequences

\* C2: for a non-empty input, sorted or not, and a positive budget B, every
\* emitted batch has summed length <= B unless it is one sequence longer
\* than B, and a sequence longer than B is alone in its batch.
C2_BudgetRespected ==
    (max_tokens_per_batch > 0 /\ all_sequences # <<>>) =>
        \A k \in 1..Len(emitted) :
            LET b == emitted[k].sequences
            IN /\ \/ sum(b) <= max_tokens_per_batch
                  \/ Len(b) = 1 /\ len(b[1]) > max_tokens_per_batch
               /\ \A j \in 1..Len(b) :
                     len(b[j]) > max_tokens_per_batch => Len(b) = 1

C2_Witness ==
    /\ pc = "pack" /\ gen.at = "done" /\ max_tokens_per_batch > 0
    /\ ~Sorted(all_sequences)
    /\ \E k \in 1..Len(emitted) :
          /\ Len(emitted[k].sequences) = 1
          /\ len(emitted[k].sequences[1]) > max_tokens_per_batch
    /\ \E k \in 1..Len(emitted) :
          /\ Len(emitted[k].sequences) >= 2
          /\ sum(emitted[k].sequences) = max_tokens_per_batch

\* C3: with a positive budget an empty batch is emitted only when the
\* input list is empty.
C3_EmptyBatchOnlyForEmptyInput ==
    max_tokens_per_batch > 0 =>
        \A k \in 1..Len(emitted) :
            emitted[k].sequences = <<>> => all_sequences = <<>>

\* Where C3 does hold: when the first sequence fits the budget, no batch is
\* empty.
NoEmptyBatchWhenFirstFits ==
    (/\ max_tokens_per_batch > 0 /\ all_sequences # <<>>
     /\ len(all_sequences[1][2]) <= max_tokens_per_batch) =>
        \A k \in 1..Len(emitted) : emitted[k].sequences # <<>>

\* C4: after a completed run the ids with a structure file are the keys of
\* pLDDT_dict and of pTM_dict, and the rewritten file has the pLDDT and pTM
\* annotations on the records with those ids and on no other record.
C4_AnnotatedExactlyCompleted ==
    pc = "done" =>
        /\ Keys(pdb) = Keys(pLDDT_dict)
        /\ Keys(pLDDT_dict) = Keys(pTM_dict)
        /\ \A i \in 1..Len(fasta) :
              IF fasta[i].id \in Keys(pLDDT_dict)
              THEN {"pLDDT", "pTM"} \subseteq Keys(fasta[i].items)
              ELSE {"pLDDT", "pTM"} \cap Keys(fasta[i].items) = {}

\* Where C4 does hold: when no record of the input file carried annotations.
AnnotatedExactlyCompletedWhenFresh ==
    ((\A i \in 1..Len(all_sequences) : all_sequences[i][1].items = <<>>) /\ pc = "done") =>
        /\ Keys(pdb) = Keys(pLDDT_dict)
        /\ Keys(pLDDT_dict) = Keys(pTM_dict)
        /\ \A i \in 1..Len(fasta) :
              IF fasta[i].id \in Keys(pLDDT_dict)
              THEN {"pLDDT", "pTM"} \subseteq Keys(fasta[i].items)
              ELSE {"pLDDT", "pTM"} \cap Keys(fasta[i].items) = {}

C6_CompletionGuarded ==
    ~(pc = "failed" /\ error = ZeroDivisionError(248))

\* C7: when model.infer fails with anything but CUDA out of memory, run()
\* ends in failure with that very exception, nothing of the failing batch
\* is counted as completed, and the input file is as it was read.
C7_OtherFailurePropagates ==
    raised \notin {NoExc, OOMError} =>
        /\ pc = "failed"
        /\ error = raised
        /\ num_completed <= Len(Flatten(emitted)) - Len(headers)
        /\ all_sequences = sorted(read_fasta(fasta))

\* Where C7 does hold: when the exception has a first argument.
OtherFailureWithMessagePropagates ==
    (raised \notin {NoExc, OOMError} /\ raised.args # <<>>) =>
        /\ pc = "failed"
        /\ error = raised
        /\ num_completed <= Len(Flatten(emitted)) - Len(headers)
        /\ all_sequences = sorted(read_fasta(fasta))

\* C8, as the specification states it: lengths 100, 200, 300, 50 with
\* budget 350 give the three batches [100,200], [300], [50].
C8_ExampleThreeBatches ==
    (all_sequences = ExampleInput /\ max_tokens_per_batch = 350 /\ gen.at = "done") =>
        BatchLengths = << <<100, 200>>, <<300>>, <<50>> >>

\* C8, amended: lengths 100, 200, 300, 50 with budget 350 give the two
\* batches [100,200], [300,50].
C8_ExampleTwoBatches ==
    (all_sequences = ExampleInput /\ max_tokens_per_batch = 350 /\ gen.at = "done") =>
        BatchLengths = << <<100, 200>>, <<300, 50>> >>

C8_Witness ==
    /\ all_sequences = ExampleInput /\ max_tokens_per_batch = 350 /\ gen.at = "done"
    /\ Len(emitted) = 2

\* C9: with a budget <= 0 no batch is ever emitted.
C9_NonPositiveBudgetRejected ==
    max_tokens_per_batch <= 0 => emitted = <<>>

\* C10: a batch of zero sequences for which model.infer returns does not
\* make the loop fail.
C10_EmptyBatchTolerated ==
    ~(pc = "failed" /\ headers = <<>> /\ raised = NoExc /\ error.line = 231)

====
